---- MODULE Spec2Model ----
(***************************************************************************)
(* Blogicum (blogicum/blog): the entity store (models.py), the visibility  *)
(* predicate _get_q_available, the four read views and the four mutating   *)
(* views of views.py, and the administrator's changes (admin.py) together  *)
(* with the on_delete rules of models.py.                                  *)
(*                                                                         *)
(* A row's primary key is its identity; title, text and image of a Post    *)
(* are carried by PostForm like pub_date and are read by no query, so a    *)
(* post is modelled by the fields the views read or assign.  A username    *)
(* and a slug are unique, so a user is named by its username and a         *)
(* category by its slug.  The feeds hold fewer than ten posts here, so a   *)
(* feed is its first page, as the set of the posts on it.                  *)
(*                                                                         *)
(* The read views (index, post_detail, category_posts, profile) write      *)
(* nothing: each is an operator giving the response in the current state.  *)
(* The mutating views are actions, and resp holds the last response with   *)
(* the request it answers.  edit_profile writes the name fields of a User  *)
(* alone and is left out.  Of the columns the administrator can edit, the  *)
(* is_published flags are modelled: they are the ones no view can clear.   *)
(***************************************************************************)
EXTENDS Integers, FiniteSets, TLC

\* ---- bounds of the model
MaxPosts == 2
MaxComments == 1
MaxTime == 1

\* ---- the universe of rows
Users == {"ann", "bob"}
Cats == {"news", "travel"}
Locs == {"paris"}
Texts == {"a", "b"}
PostIds == 1..MaxPosts
CommentIds == 1..MaxComments
Times == 0..MaxTime

\* request.user of a request without a session (AnonymousUser)
Anon == "anonymous"
\* None in a nullable foreign key
NULL == "null"
\* None for an optional pk argument of a view
NoId == 0

VARIABLES now, users, categories, locations, posts, nextPostId,
          comments, nextCommentId, resp

store == <<users, categories, locations, posts, nextPostId,
           comments, nextCommentId>>
vars == <<now, users, categories, locations, posts, nextPostId,
          comments, nextCommentId, resp>>

\* ---- helpers
Restrict(f, S) == [x \in S |-> f[x]]
Extend(f, k, v) == [x \in DOMAIN f \cup {k} |-> IF x = k THEN v ELSE f[x]]

\* request.user.is_authenticated
is_authenticated(user) == user # Anon

\* The response of a view, with the request it answers.
Response(view, user, post_id, comment_id, code) ==
    [view |-> view, user |-> user, post_id |-> post_id,
     comment_id |-> comment_id, code |-> code]
NoResponse == Response("none", Anon, NoId, NoId, "none")

\* ---- the visibility predicate (views.py, _get_q_available), on post row p
\* category__is_published=True: the join fails for a null category
category_is_published(p) ==
    /\ posts[p].category # NULL
    /\ posts[p].category \in DOMAIN categories
    /\ categories[posts[p].category].is_published

get_q_available_lt(p, user, own) ==
    \/ /\ posts[p].pub_date < now
       /\ posts[p].is_published
       /\ category_is_published(p)
    \/ /\ own
       /\ is_authenticated(user)
       /\ posts[p].author = user

get_q_available_own(p, user, own) ==
    \/ /\ posts[p].pub_date <= now
       /\ posts[p].is_published
       /\ category_is_published(p)
    \/ /\ is_authenticated(user)
       /\ posts[p].author = user

get_q_available(p, user, own) ==
    \/ /\ posts[p].pub_date <= now
       /\ posts[p].is_published
       /\ category_is_published(p)
    \/ /\ own
       /\ is_authenticated(user)
       /\ posts[p].author = user

post_found_by_pk(user, post_id) == post_id \in DOMAIN posts

\* get_object_or_404(Post, Q(id=post_id), _get_q_available(request))
post_found(user, post_id) ==
    /\ post_id \in DOMAIN posts
    /\ get_q_available(post_id, user, TRUE)

\* ---- the read views: the response as a function of the store
index(user) ==
    [code |-> "200",
     page |-> {p \in DOMAIN posts : get_q_available(p, user, FALSE)}]

post_detail(user, post_id) ==
    IF post_found(user, post_id)
    THEN [code |-> "200", post |-> post_id,
          comments |-> {c \in DOMAIN comments : comments[c].post = post_id}]
    ELSE [code |-> "404"]

category_posts(user, slug) ==
    IF slug \in DOMAIN categories /\ categories[slug].is_published
    THEN [code |-> "200",
          page |-> {p \in DOMAIN posts :
                      /\ posts[p].category = slug
                      /\ get_q_available(p, user, FALSE)}]
    ELSE [code |-> "404"]

profile_all(user, username) ==
    IF username \in users
    THEN [code |-> "200",
          page |-> {p \in DOMAIN posts : get_q_available(p, user, TRUE)}]
    ELSE [code |-> "404"]

profile(user, username) ==
    IF username \in users
    THEN [code |-> "200",
          page |-> {p \in DOMAIN posts :
                      /\ posts[p].author = username
                      /\ get_q_available(p, user, TRUE)}]
    ELSE [code |-> "404"]

\* ---- the forms (forms.py)
\* PostForm: category is required (null=True without blank=True), location is
\* optional; a choice must be an existing row.
PostForm_is_valid(data) ==
    /\ data.category \in DOMAIN categories
    /\ data.location \in locations \cup {NULL}

\* CommentForm: text is required.
CommentForm_is_valid(text) == text # ""

\* ---- the rows the mutating views write
\* Post(): is_published defaults to True (core/models.py)
NewPost == [author |-> NULL, pub_date |-> 0, is_published |-> TRUE,
            category |-> NULL, location |-> NULL]

post_save_keep_flag(instance, user, data) ==
    [author |-> user, pub_date |-> data.pub_date,
     is_published |-> instance.is_published,
     category |-> data.category, location |-> data.location]

\* form.save(commit=False); post.author = request.user;
\* post.is_published = True; post.save()
post_save(instance, user, data) ==
    [author |-> user, pub_date |-> data.pub_date, is_published |-> TRUE,
     category |-> data.category, location |-> data.location]

comment_save_no_author(user, post_id, text) ==
    [author |-> NULL, post |-> post_id, text |-> text]

\* comment.post = instance; comment.author = request.user; comment.save()
comment_save(user, post_id, text) ==
    [author |-> user, post |-> post_id, text |-> text]

post_not_owned_never(post_id, user) == FALSE

\* instance.author != request.user
post_not_owned(post_id, user) == posts[post_id].author # user

comment_not_owned_null(comment_id, user) ==
    /\ comments[comment_id].author # user
    /\ comments[comment_id].author # NULL

\* comment.author != request.user
comment_not_owned(comment_id, user) == comments[comment_id].author # user

comments_without_keep(gone) == comments

\* Comment.post is on_delete=CASCADE: the comments left once the posts
\* `gone` are deleted
comments_without(gone) ==
    Restrict(comments, {c \in DOMAIN comments : comments[c].post \notin gone})

\* ---- the mutating views (views.py)
\* create_post(request, post_id=None): post_id = NoId creates, else edits
create_post(user, post_id, method, data) ==
    IF ~is_authenticated(user)
    THEN /\ resp' = Response("create_post", user, post_id, NoId, "302 login")
         /\ UNCHANGED <<now, store>>
    ELSE IF post_id # NoId /\ ~post_found(user, post_id)
    THEN /\ resp' = Response("create_post", user, post_id, NoId, "404")
         /\ UNCHANGED <<now, store>>
    ELSE IF post_id # NoId /\ post_not_owned(post_id, user)
    THEN /\ resp' = Response("create_post", user, post_id, NoId,
                             "302 post_detail")
         /\ UNCHANGED <<now, store>>
    ELSE IF method = "POST" /\ PostForm_is_valid(data)
    THEN IF post_id = NoId
         THEN /\ nextPostId <= MaxPosts
              /\ posts' = Extend(posts, nextPostId,
                                 post_save(NewPost, user, data))
              /\ nextPostId' = nextPostId + 1
              /\ resp' = Response("create_post", user, post_id, NoId,
                                  "302 profile")
              /\ UNCHANGED <<now, users, categories, locations, comments,
                             nextCommentId>>
         ELSE /\ posts' = [posts EXCEPT ![post_id] =
                                 post_save(posts[post_id], user, data)]
              /\ resp' = Response("create_post", user, post_id, NoId,
                                  "302 post_detail")
              /\ UNCHANGED <<now, users, categories, locations, nextPostId,
                             comments, nextCommentId>>
    ELSE /\ resp' = Response("create_post", user, post_id, NoId, "200")
         /\ UNCHANGED <<now, store>>

delete_post(user, post_id, method) ==
    IF ~is_authenticated(user)
    THEN /\ resp' = Response("delete_post", user, post_id, NoId, "302 login")
         /\ UNCHANGED <<now, store>>
    ELSE IF ~post_found(user, post_id)
    THEN /\ resp' = Response("delete_post", user, post_id, NoId, "404")
         /\ UNCHANGED <<now, store>>
    ELSE IF post_not_owned(post_id, user)
    THEN /\ resp' = Response("delete_post", user, post_id, NoId,
                             "302 post_detail")
         /\ UNCHANGED <<now, store>>
    ELSE IF method = "POST"
    THEN /\ posts' = Restrict(posts, DOMAIN posts \ {post_id})
         /\ comments' = comments_without({post_id})
         /\ resp' = Response("delete_post", user, post_id, NoId, "302 index")
         /\ UNCHANGED <<now, users, categories, locations, nextPostId,
                        nextCommentId>>
    ELSE /\ resp' = Response("delete_post", user, post_id, NoId, "200")
         /\ UNCHANGED <<now, store>>

\* add_comment(request, post_id, comment_id=None): comment_id = NoId adds a
\* comment, else edits comment comment_id
add_comment(user, post_id, comment_id, method, text) ==
    IF ~is_authenticated(user)
    THEN /\ resp' = Response("add_comment", user, post_id, comment_id,
                             "302 login")
         /\ UNCHANGED <<now, store>>
    ELSE IF ~post_found(user, post_id)
    THEN /\ resp' = Response("add_comment", user, post_id, comment_id, "404")
         /\ UNCHANGED <<now, store>>
    ELSE IF comment_id = NoId
    THEN IF method = "POST" /\ CommentForm_is_valid(text)
         THEN /\ nextCommentId <= MaxComments
              /\ comments' = Extend(comments, nextCommentId,
                                    comment_save(user, post_id, text))
              /\ nextCommentId' = nextCommentId + 1
              /\ resp' = Response("add_comment", user, post_id, comment_id,
                                  "302 post_detail")
              /\ UNCHANGED <<now, users, categories, locations, posts,
                             nextPostId>>
         ELSE /\ resp' = Response("add_comment", user, post_id, comment_id,
                                  "302 post_detail")
              /\ UNCHANGED <<now, store>>
    ELSE IF comment_id \notin DOMAIN comments
    THEN /\ resp' = Response("add_comment", user, post_id, comment_id, "404")
         /\ UNCHANGED <<now, store>>
    ELSE IF comment_not_owned(comment_id, user)
    THEN /\ resp' = Response("add_comment", user, post_id, comment_id,
                             "302 post_detail")
         /\ UNCHANGED <<now, store>>
    ELSE IF method = "POST" /\ CommentForm_is_valid(text)
    THEN /\ comments' = [comments EXCEPT ![comment_id].text = text]
         /\ resp' = Response("add_comment", user, post_id, comment_id,
                             "302 post_detail")
         /\ UNCHANGED <<now, users, categories, locations, posts, nextPostId,
                        nextCommentId>>
    ELSE /\ resp' = Response("add_comment", user, post_id, comment_id, "200")
         /\ UNCHANGED <<now, store>>

delete_comment(user, post_id, comment_id, method) ==
    IF ~is_authenticated(user)
    THEN /\ resp' = Response("delete_comment", user, post_id, comment_id,
                             "302 login")
         /\ UNCHANGED <<now, store>>
    ELSE IF ~post_found(user, post_id)
    THEN /\ resp' = Response("delete_comment", user, post_id, comment_id,
                             "404")
         /\ UNCHANGED <<now, store>>
    ELSE IF ~(comment_id \in DOMAIN comments
              /\ comments[comment_id].post = post_id)
    THEN /\ resp' = Response("delete_comment", user, post_id, comment_id,
                             "404")
         /\ UNCHANGED <<now, store>>
    ELSE IF comment_not_owned(comment_id, user)
    THEN /\ resp' = Response("delete_comment", user, post_id, comment_id,
                             "302 post_detail")
         /\ UNCHANGED <<now, store>>
    ELSE IF method = "POST"
    THEN /\ comments' = Restrict(comments, DOMAIN comments \ {comment_id})
         /\ resp' = Response("delete_comment", user, post_id, comment_id,
                             "302 post_detail")
         /\ UNCHANGED <<now, users, categories, locations, posts, nextPostId,
                        nextCommentId>>
    ELSE /\ resp' = Response("delete_comment", user, post_id, comment_id,
                             "200")
         /\ UNCHANGED <<now, store>>

\* ---- the administrator (admin.py) and the on_delete rules (models.py)
\* PostAdmin, list_editable is_published
AdminSetPostPublished(p, flag) ==
    /\ p \in DOMAIN posts
    /\ posts[p].is_published # flag
    /\ posts' = [posts EXCEPT ![p].is_published = flag]
    /\ resp' = NoResponse
    /\ UNCHANGED <<now, users, categories, locations, nextPostId, comments,
                   nextCommentId>>

\* CategoryAdmin, list_editable is_published
AdminSetCategoryPublished(c, flag) ==
    /\ c \in DOMAIN categories
    /\ categories[c].is_published # flag
    /\ categories' = [categories EXCEPT ![c].is_published = flag]
    /\ resp' = NoResponse
    /\ UNCHANGED <<now, users, locations, posts, nextPostId, comments,
                   nextCommentId>>

\* Category.delete(): Post.category is on_delete=SET_NULL
AdminDeleteCategory(c) ==
    /\ c \in DOMAIN categories
    /\ categories' = Restrict(categories, DOMAIN categories \ {c})
    /\ posts' = [p \in DOMAIN posts |->
                   IF posts[p].category = c
                   THEN [posts[p] EXCEPT !.category = NULL]
                   ELSE posts[p]]
    /\ resp' = NoResponse
    /\ UNCHANGED <<now, users, locations, nextPostId, comments,
                   nextCommentId>>

\* Location.delete(): Post.location is on_delete=SET_NULL
AdminDeleteLocation(l) ==
    /\ l \in locations
    /\ locations' = locations \ {l}
    /\ posts' = [p \in DOMAIN posts |->
                   IF posts[p].location = l
                   THEN [posts[p] EXCEPT !.location = NULL]
                   ELSE posts[p]]
    /\ resp' = NoResponse
    /\ UNCHANGED <<now, users, categories, nextPostId, comments,
                   nextCommentId>>

\* User.delete(): Post.author is on_delete=CASCADE (and Comment.post after
\* it), Comment.author is on_delete=SET_NULL
AdminDeleteUser(u) ==
    LET gone == {p \in DOMAIN posts : posts[p].author = u}
        left == comments_without(gone)
    IN  /\ u \in users
        /\ users' = users \ {u}
        /\ posts' = Restrict(posts, DOMAIN posts \ gone)
        /\ comments' = [c \in DOMAIN left |->
                          IF left[c].author = u
                          THEN [left[c] EXCEPT !.author = NULL]
                          ELSE left[c]]
        /\ resp' = NoResponse
        /\ UNCHANGED <<now, categories, locations, nextPostId,
                       nextCommentId>>

\* timezone.now() moves on
Tick ==
    /\ now < MaxTime
    /\ now' = now + 1
    /\ resp' = NoResponse
    /\ UNCHANGED store

\* ---- the specifications
Init ==
    /\ now = 0
    /\ users = Users
    /\ categories = [c \in Cats |-> [is_published |-> TRUE]]
    /\ locations = Locs
    /\ posts = [p \in {} |-> NewPost]
    /\ nextPostId = 1
    /\ comments = [c \in {} |-> comment_save(NULL, NoId, "")]
    /\ nextCommentId = 1
    /\ resp = NoResponse

Methods == {"GET", "POST"}
Actors == users \cup {Anon}

\* The feeds: posts of every date, flag and category, read by the four
\* read views.
FeedsPostData == [pub_date : Times, category : Cats \cup {NULL},
                  location : {NULL}]

NextFeeds ==
    \/ \E u \in Actors, id \in PostIds \cup {NoId}, m \in Methods,
          d \in FeedsPostData : create_post(u, id, m, d)
    \/ \E u \in Actors, id \in PostIds, m \in Methods : delete_post(u, id, m)
    \/ \E p \in PostIds, flag \in BOOLEAN : AdminSetPostPublished(p, flag)
    \/ \E c \in Cats, flag \in BOOLEAN : AdminSetCategoryPublished(c, flag)
    \/ \E c \in Cats : AdminDeleteCategory(c)
    \/ Tick

SpecFeeds == Init /\ [][NextFeeds]_vars

\* The mutating views: posts that are public, future-dated or unpublished,
\* their comments, and comments whose author is gone.
HandlersPostData == [pub_date : Times, category : {"news", NULL},
                     location : {NULL}]

NextHandlers ==
    \/ \E u \in Actors, id \in PostIds \cup {NoId}, m \in Methods,
          d \in HandlersPostData : create_post(u, id, m, d)
    \/ \E u \in Actors, id \in PostIds, m \in Methods : delete_post(u, id, m)
    \/ \E u \in Actors, id \in PostIds, c \in CommentIds \cup {NoId},
          m \in Methods, t \in Texts \cup {""} : add_comment(u, id, c, m, t)
    \/ \E u \in Actors, id \in PostIds, c \in CommentIds, m \in Methods :
          delete_comment(u, id, c, m)
    \/ \E p \in PostIds, flag \in BOOLEAN : AdminSetPostPublished(p, flag)
    \/ \E u \in Users : AdminDeleteUser(u)

SpecHandlers == Init /\ [][NextHandlers]_vars

\* Deletion: posts of both categories, with and without a location, their
\* comments, and the deletion of categories, locations, posts and users.
IntegrityPostData == [pub_date : {0}, category : Cats,
                      location : Locs \cup {NULL}]

NextIntegrity ==
    \/ \E u \in Actors, d \in IntegrityPostData :
          create_post(u, NoId, "POST", d)
    \/ \E u \in Actors, id \in PostIds : delete_post(u, id, "POST")
    \/ \E u \in Actors, id \in PostIds : add_comment(u, id, NoId, "POST", "a")
    \/ \E c \in Cats : AdminDeleteCategory(c)
    \/ \E l \in Locs : AdminDeleteLocation(l)
    \/ \E u \in Users : AdminDeleteUser(u)

SpecIntegrity == Init /\ [][NextIntegrity]_vars

\* ---- the claims about the read views, checked under SpecFeeds

\* A post is public: its date has come, it is published and it has a
\* published category.
PubliclyVisible(p) ==
    /\ posts[p].pub_date <= now
    /\ posts[p].is_published
    /\ posts[p].category \in DOMAIN categories
    /\ categories[posts[p].category].is_published

\* C1: for every actor, the home feed holds exactly the public posts and the
\* feed of a published category exactly the public posts of that category;
\* an author's own hidden posts are in neither.
C1_PublicFeeds ==
    \A a \in Actors :
        /\ index(a).page = {p \in DOMAIN posts : PubliclyVisible(p)}
        /\ \A c \in DOMAIN categories :
              categories[c].is_published =>
                 /\ category_posts(a, c).code = "200"
                 /\ category_posts(a, c).page =
                       {p \in DOMAIN posts :
                          PubliclyVisible(p) /\ posts[p].category = c}

\* An author has a public post and a hidden one; the author's home feed
\* and category feed hold the public one alone.
C1_Witness ==
    \E p, q \in DOMAIN posts :
        /\ posts[p].author = posts[q].author
        /\ ~PubliclyVisible(p)
        /\ PubliclyVisible(q)
        /\ index(posts[p].author).page = {q}
        /\ category_posts(posts[p].author, posts[q].category).page = {q}

\* C2: post_detail answers 404 unless the post exists and is public or the
\* actor is logged in and is its author; the author gets the post.
C2_PostDetail ==
    \A a \in Actors, i \in PostIds :
        IF /\ i \in DOMAIN posts
           /\ \/ PubliclyVisible(i)
              \/ a # Anon /\ posts[i].author = a
        THEN post_detail(a, i).code = "200" /\ post_detail(a, i).post = i
        ELSE post_detail(a, i).code = "404"

\* A post dated in the future: 404 for the anonymous actor and for another
\* user, the post for its author.
C2_Witness ==
    \E i \in DOMAIN posts :
        /\ posts[i].pub_date > now
        /\ post_detail(Anon, i).code = "404"
        /\ \E a \in users : a # posts[i].author
                            /\ post_detail(a, i).code = "404"
        /\ posts[i].author \in users
        /\ post_detail(posts[i].author, i).code = "200"

\* C3: the profile feed of an existing user U holds all of U's posts for U,
\* U's public posts for anybody else, and nobody else's posts.
C3_Profile ==
    \A U \in users, V \in Actors :
        /\ profile(V, U).code = "200"
        /\ profile(V, U).page =
              IF V = U
              THEN {p \in DOMAIN posts : posts[p].author = U}
              ELSE {p \in DOMAIN posts :
                      posts[p].author = U /\ PubliclyVisible(p)}

\* U has a hidden post and the other user a public one: U's own profile
\* holds the hidden post, and nobody else sees it there.
C3_Witness ==
    \E p, q \in DOMAIN posts :
        /\ posts[p].author # posts[q].author
        /\ ~PubliclyVisible(p)
        /\ PubliclyVisible(q)
        /\ profile(posts[p].author, posts[p].author).page = {p}
        /\ profile(posts[q].author, posts[p].author).page = {}
        /\ profile(Anon, posts[p].author).page = {}

\* C8: a published post of a published category is, while now < pub_date,
\* in no home feed and 404 for every actor but its author, and from
\* now >= pub_date on in every home feed and returned to every actor; a
\* step that leaves the post and its category's flag alone keeps it visible.
C8_Deferred ==
    /\ [](\A p \in DOMAIN posts :
            (/\ posts[p].is_published
             /\ posts[p].category \in DOMAIN categories
             /\ categories[posts[p].category].is_published) =>
               IF now < posts[p].pub_date
               THEN /\ \A a \in Actors : p \notin index(a).page
                    /\ \A a \in Actors \ {posts[p].author} :
                          post_detail(a, p).code = "404"
               ELSE \A a \in Actors :
                       /\ p \in index(a).page
                       /\ post_detail(a, p).code = "200")
    /\ [][\A p \in DOMAIN posts :
            (/\ p \in index(Anon).page
             /\ p \in DOMAIN posts'
             /\ posts'[p] = posts[p]
             /\ posts[p].category \in DOMAIN categories'
             /\ categories'[posts[p].category].is_published) =>
               /\ (p \in index(Anon).page)'
               /\ (post_detail(Anon, p).code = "200")']_vars

\* The date of a post dated after the start has come, and the anonymous
\* actor has it in the home feed.
C8_Witness ==
    \E p \in DOMAIN posts :
        /\ posts[p].pub_date > 0
        /\ now >= posts[p].pub_date
        /\ p \in index(Anon).page
        /\ post_detail(Anon, p).code = "200"

\* ---- the claims about the mutating views, checked under SpecHandlers

\* Post p is visible to the logged-in user a: public, or a's own.
VisibleTo(p, a) ==
    /\ p \in DOMAIN posts
    /\ PubliclyVisible(p) \/ posts[p].author = a

\* The step is an edit or delete request for post p by the logged-in user a.
PostRequestBy(a, p) ==
    /\ resp'.view \in {"create_post", "delete_post"}
    /\ resp'.user = a
    /\ resp'.post_id = p

\* C4 as claimed: an edit or delete request by a user who does not own the
\* post is redirected to the post's detail view and changes nothing.
C4_Original ==
    [][\A a \in users, p \in DOMAIN posts :
          (posts[p].author # a /\ PostRequestBy(a, p)) =>
             /\ resp'.code = "302 post_detail"
             /\ UNCHANGED store]_vars

\* C4, amended: such a request is redirected to the post's detail view when
\* the post is public and answered 404 when it is not, and changes nothing.
C4_NonOwnerPostRequest ==
    [][\A a \in users, p \in DOMAIN posts :
          (posts[p].author # a /\ PostRequestBy(a, p)) =>
             /\ resp'.code = IF PubliclyVisible(p)
                             THEN "302 post_detail" ELSE "404"
             /\ UNCHANGED store]_vars

\* A user who does not own the post asked to edit it and was redirected;
\* the post has a comment.
C4_Witness ==
    /\ resp.view = "create_post"
    /\ resp.code = "302 post_detail"
    /\ resp.user \in users
    /\ resp.post_id \in DOMAIN posts
    /\ posts[resp.post_id].author # resp.user
    /\ \E c \in DOMAIN comments : comments[c].post = resp.post_id

\* The step is an edit or delete request for comment c.
CommentRequest(c) ==
    /\ resp'.view \in {"add_comment", "delete_comment"}
    /\ resp'.comment_id = c

\* A comment's text changes only in an edit by its author, and the delete
\* view removes a comment only for its author.
C5_OnlyTheAuthor ==
    \A c \in DOMAIN comments :
        /\ (c \in DOMAIN comments' /\ comments'[c].text # comments[c].text) =>
              /\ resp'.view = "add_comment"
              /\ resp'.comment_id = c
              /\ resp'.user = comments[c].author
        /\ (c \notin DOMAIN comments' /\ resp'.view = "delete_comment") =>
              /\ resp'.comment_id = c
              /\ resp'.user = comments[c].author

\* C5 as claimed: a comment is edited or deleted by its author alone, and
\* the request of another logged-in user is redirected to the post's detail
\* view and leaves the comment as it is.  Stated of the requests made under
\* the id of the comment's own post only.
C5_Original ==
    [][/\ C5_OnlyTheAuthor
       /\ \A c \in DOMAIN comments :
             (/\ CommentRequest(c)
              /\ resp'.post_id = comments[c].post
              /\ resp'.user \in users
              /\ comments[c].author # resp'.user) =>
                /\ resp'.code = "302 post_detail"
                /\ c \in DOMAIN comments'
                /\ comments'[c] = comments[c]]_vars

\* C5, amended: the request of another logged-in user leaves the comment as
\* it is and is answered 404 when the post of the request is not visible to
\* the requester or, for a delete, is not the comment's post, and by the
\* redirect otherwise.
C5_NonAuthorCommentRequest ==
    [][/\ C5_OnlyTheAuthor
       /\ \A c \in DOMAIN comments :
             (/\ CommentRequest(c)
              /\ resp'.user \in users
              /\ comments[c].author # resp'.user) =>
                /\ resp'.code =
                      IF /\ VisibleTo(resp'.post_id, resp'.user)
                         /\ \/ resp'.view = "add_comment"
                            \/ comments[c].post = resp'.post_id
                      THEN "302 post_detail" ELSE "404"
                /\ c \in DOMAIN comments'
                /\ comments'[c] = comments[c]]_vars

\* A user asked to delete a comment whose author is gone, and was
\* redirected; the comment is still there.
C5_Witness ==
    /\ resp.view = "delete_comment"
    /\ resp.code = "302 post_detail"
    /\ resp.user \in users
    /\ resp.comment_id \in DOMAIN comments
    /\ comments[resp.comment_id].author = NULL

\* The comment added by a valid POST of a on post p with text t, and
\* nothing else changed.
CommentCreated(a, p, t) ==
    /\ comments' = Extend(comments, nextCommentId,
                          [author |-> a, post |-> p, text |-> t])
    /\ nextCommentId \notin DOMAIN comments
    /\ UNCHANGED <<now, users, categories, locations, posts, nextPostId>>

\* The step is a request of the logged-in user a to add a comment on p.
AddRequestBy(a, p) ==
    /\ resp'.view = "add_comment"
    /\ resp'.comment_id = NoId
    /\ resp'.user = a
    /\ resp'.post_id = p

\* A valid POST to add a comment: one new comment on a post visible to the
\* user, 404 and nothing created on any other.
C6_ValidPost(a, p, t) ==
    (AddRequestBy(a, p) /\ add_comment(a, p, NoId, "POST", t)) =>
        IF VisibleTo(p, a)
        THEN CommentCreated(a, p, t)
        ELSE resp'.code = "404" /\ UNCHANGED store

\* C6 as claimed: besides, an add request that is not a POST is redirected
\* to the post's detail view and creates nothing.  Stated of the requests
\* for an existing post only.
C6_Original ==
    [][\A a \in users, p \in DOMAIN posts, t \in Texts :
          /\ C6_ValidPost(a, p, t)
          /\ (AddRequestBy(a, p) /\ add_comment(a, p, NoId, "GET", t)) =>
                /\ resp'.code = "302 post_detail"
                /\ UNCHANGED store]_vars

\* C6, amended: an add request that is not a POST creates nothing, and is
\* redirected to the post's detail view when the post is visible to the
\* user and answered 404 when it is not.
C6_AddComment ==
    [][\A a \in users, p \in PostIds, t \in Texts :
          /\ C6_ValidPost(a, p, t)
          /\ (AddRequestBy(a, p) /\ add_comment(a, p, NoId, "GET", t)) =>
                /\ resp'.code = IF VisibleTo(p, a)
                                THEN "302 post_detail" ELSE "404"
                /\ UNCHANGED store]_vars

\* A user added a comment to an own post that is not public.
C6_Witness ==
    /\ resp.view = "add_comment"
    /\ resp.comment_id = NoId
    /\ resp.code = "302 post_detail"
    /\ resp.post_id \in DOMAIN posts
    /\ ~PubliclyVisible(resp.post_id)
    /\ \E c \in DOMAIN comments :
          /\ comments[c].author = resp.user
          /\ comments[c].post = resp.post_id

\* C9: a save through create_post leaves the saved post with the requesting
\* user as author and is_published true, and no view changes the author of
\* a post.
C9_SaveSetsAuthorAndFlag ==
    [][/\ (resp'.view = "create_post" /\ resp'.code = "302 profile") =>
             /\ nextPostId \in DOMAIN posts'
             /\ posts'[nextPostId].author = resp'.user
             /\ posts'[nextPostId].is_published
       /\ \A p \in DOMAIN posts :
             (/\ resp'.view = "create_post"
              /\ resp'.code = "302 post_detail"
              /\ resp'.post_id = p
              /\ resp'.user = posts[p].author) =>
                /\ p \in DOMAIN posts'
                /\ posts'[p].author = resp'.user
                /\ posts'[p].is_published
       /\ resp'.view # "none" =>
             \A p \in DOMAIN posts \cap DOMAIN posts' :
                posts'[p].author = posts[p].author]_vars

\* The owner saved an edit of a post, which is published and public.
C9_Witness ==
    /\ resp.view = "create_post"
    /\ resp.code = "302 post_detail"
    /\ resp.post_id \in DOMAIN posts
    /\ posts[resp.post_id].author = resp.user
    /\ posts[resp.post_id].is_published
    /\ PubliclyVisible(resp.post_id)

\* C10: an edit or delete request for a comment under the id of a post that
\* is not the comment's post leaves the comment as it is.
C10_CommentOfOtherPost ==
    [][\A c \in DOMAIN comments :
          (CommentRequest(c) /\ comments[c].post # resp'.post_id) =>
             /\ c \in DOMAIN comments'
             /\ comments'[c] = comments[c]]_vars

\* ---- the claim about deletion, checked under SpecIntegrity

\* The step deletes category c: its posts lose their category, and every
\* post stays.
CategoryDeleted(c) ==
    (c \in DOMAIN categories /\ c \notin DOMAIN categories') =>
        /\ DOMAIN posts' = DOMAIN posts
        /\ \A p \in DOMAIN posts :
              posts'[p] = IF posts[p].category = c
                          THEN [posts[p] EXCEPT !.category = NULL]
                          ELSE posts[p]

LocationDeleted(l) ==
    (l \in locations /\ l \notin locations') =>
        /\ DOMAIN posts' = DOMAIN posts
        /\ \A p \in DOMAIN posts :
              posts'[p] = IF posts[p].location = l
                          THEN [posts[p] EXCEPT !.location = NULL]
                          ELSE posts[p]

\* The step deletes post p: its comments go with it.
PostDeleted(p) ==
    (p \in DOMAIN posts /\ p \notin DOMAIN posts') =>
        \A c \in DOMAIN comments :
           comments[c].post = p => c \notin DOMAIN comments'

\* Every comment is a comment of an existing post, every post has an
\* existing author, and a post without a category is in no home feed and
\* is returned to its author by the profile feed and by post_detail.
ReferencesHold ==
    /\ \A c \in DOMAIN comments :
          /\ comments[c].post \in DOMAIN posts
          /\ comments[c].author \in users \cup {NULL}
    /\ \A p \in DOMAIN posts :
          /\ posts[p].author \in users
          /\ posts[p].category \in DOMAIN categories \cup {NULL}
          /\ posts[p].location \in locations \cup {NULL}
          /\ posts[p].category = NULL =>
                /\ \A a \in Actors : p \notin index(a).page
                /\ p \in profile(posts[p].author, posts[p].author).page
                /\ post_detail(posts[p].author, p).code = "200"

\* C7 as claimed: the deletion of a user keeps every comment of that user,
\* with its author set to null.
C7_Original ==
    /\ []ReferencesHold
    /\ [][/\ \A c \in Cats : CategoryDeleted(c)
          /\ \A l \in Locs : LocationDeleted(l)
          /\ \A p \in PostIds : PostDeleted(p)
          /\ \A u \in users \ users', c \in DOMAIN comments :
                comments[c].author = u =>
                   /\ c \in DOMAIN comments'
                   /\ comments'[c] = [comments[c] EXCEPT !.author = NULL]]_vars

\* C7, amended: the deletion of a user keeps a comment of that user, with
\* its author set to null, unless the comment is on a post of that user:
\* the post is deleted with the user, and the comment with the post.
C7_Integrity ==
    /\ []ReferencesHold
    /\ [][/\ \A c \in Cats : CategoryDeleted(c)
          /\ \A l \in Locs : LocationDeleted(l)
          /\ \A p \in PostIds : PostDeleted(p)
          /\ \A u \in users \ users', c \in DOMAIN comments :
                comments[c].author = u =>
                   IF posts[comments[c].post].author = u
                   THEN c \notin DOMAIN comments'
                   ELSE /\ c \in DOMAIN comments'
                        /\ comments'[c] =
                              [comments[c] EXCEPT !.author = NULL]]_vars

\* A comment outlived its author, and a post its category and its location.
C7_Witness ==
    /\ users # Users
    /\ \E c \in DOMAIN comments : comments[c].author = NULL
    /\ \E p \in DOMAIN posts :
          /\ posts[p].category = NULL
          /\ posts[p].location = NULL
          /\ locations = {}
          /\ p \in profile(posts[p].author, posts[p].author).page

====
